---- MODULE Spec2Model ----
(***************************************************************************)
(* Model of src/src/utils/pdf-converter.ts: the per-page renderer          *)
(* (renderPage), the text normalizer (cleanText) and the Markdown assembly *)
(* of pdfToMarkdown.                                                       *)
(*                                                                         *)
(* A text is a sequence of characters; a character is a one-element        *)
(* string.  The Romanian letters of the regular expressions are written    *)
(* with ASCII names ("a-breve" is U+0103, "i-circ" is U+00EE, ...).        *)
(***************************************************************************)
EXTENDS Integers, Sequences, FiniteSets, TLC

\* ------------------------------------------------------------------------
\* Character classes of the regular expressions
\* ------------------------------------------------------------------------
LowerAscii ==
  {"a","b","c","d","e","f","g","h","i","j","k","l","m",
   "n","o","p","q","r","s","t","u","v","w","x","y","z"}

UpperAscii ==
  {"A","B","C","D","E","F","G","H","I","J","K","L","M",
   "N","O","P","Q","R","S","T","U","V","W","X","Y","Z"}

DigitChars == {"0","1","2","3","4","5","6","7","8","9"}

\* [a-zăâîșț]
LowerRo == LowerAscii \cup {"a-breve","a-circ","i-circ","s-comma","t-comma"}

\* [A-ZĂÂÎȘȚ]
UpperRo == UpperAscii \cup {"A-breve","A-circ","I-circ","S-comma","T-comma"}

\* \s (the members that the inputs can contain)
SpaceChars == {" ", "\t", "\n"}

\* [ \t]
BlankChars == {" ", "\t"}

\* \w, the class that decides \b
WordChars == LowerAscii \cup UpperAscii \cup DigitChars \cup {"_"}

\* [,!?;:]
PunctChars == {",", "!", "?", ";", ":"}

\* [.!?]
SentenceEnd == {".", "!", "?"}

\* [a-zA-Z0-9._%+-]
EmailLocal == LowerAscii \cup UpperAscii \cup DigitChars \cup {".","_","%","+","-"}

\* [a-zA-Z0-9.-]
EmailDomain == LowerAscii \cup UpperAscii \cup DigitChars \cup {".","-"}

\* [a-zA-Z]
AsciiLetters == LowerAscii \cup UpperAscii

\* ------------------------------------------------------------------------
\* String helpers (String.prototype methods used by the source)
\* ------------------------------------------------------------------------
\* the least element of a non-empty set of positions
Min(S) == CHOOSE x \in S : \A y \in S : x <= y

\* the greatest element of a non-empty set of positions
Max(S) == CHOOSE x \in S : \A y \in S : y <= x

\* s.startsWith(p, i-1): p occurs in s at the 1-based position i
OccursAt(s, p, i) ==
  /\ i >= 1
  /\ i + Len(p) - 1 <= Len(s)
  /\ \A k \in 1..Len(p) : s[i + k - 1] = p[k]

\* s.indexOf(p) + 1: the first position at which p occurs in s, 0 when none
IndexOf(s, p) ==
  LET hits == {i \in 1..(Len(s) - Len(p) + 1) : OccursAt(s, p, i)}
  IN  IF hits = {} THEN 0 ELSE Min(hits)

\* s.includes(p)
Contains(s, p) == IndexOf(s, p) # 0

\* the number of positions at which p occurs in s
CountOcc(s, p) == Cardinality({i \in 1..(Len(s) - Len(p) + 1) : OccursAt(s, p, i)})

\* s.substring(i-1): the suffix of s from position i
From(s, i) == SubSeq(s, i, Len(s))

\* the end of the maximal run of characters of class cls that starts at i
\* (i - 1 when s[i] is not in cls): a greedy [cls]* at i
RunEnd(s, i, cls) ==
  IF i > Len(s) \/ s[i] \notin cls THEN i - 1
  ELSE CHOOSE e \in i..Len(s) :
         /\ \A k \in i..e : s[k] \in cls
         /\ (e = Len(s) \/ s[e + 1] \notin cls)

\* String.prototype.trim
Trim(s) ==
  LET lead  == RunEnd(s, 1, SpaceChars)
      trail == CHOOSE n \in 0..Len(s) :
                 /\ \A k \in (Len(s) - n + 1)..Len(s) : s[k] \in SpaceChars
                 /\ (n = Len(s) \/ s[Len(s) - n] \notin SpaceChars)
  IN  IF lead = Len(s) THEN <<>> ELSE SubSeq(s, lead + 1, Len(s) - trail)

\* the concatenation of a sequence of texts, Array.prototype.join('')
RECURSIVE Concat(_)
Concat(ss) == IF ss = <<>> THEN <<>> ELSE Head(ss) \o Concat(Tail(ss))

\* Number -> decimal digits, as a template literal prints it
RECURSIVE Digits(_)
Digits(n) ==
  LET d == <<"0","1","2","3","4","5","6","7","8","9">>[(n % 10) + 1]
  IN  IF n < 10 THEN <<d>> ELSE Append(Digits(n \div 10), d)

\* GetSubstitution of ECMAScript for a replacement given as a string and a
\* pattern without capture groups: "$$" is "$", "$&" is the matched text,
\* "$" with a backtick the text before the match, "$'" the text after it; any
\* other "$" stands for itself.  The backtick is the character "backtick".
RECURSIVE GetSubstitution(_, _, _, _)
GetSubstitution(repl, matched, before, after) ==
  LET refs == {j \in 1..(Len(repl) - 1) :
                 repl[j] = "$" /\ repl[j + 1] \in {"$", "&", "backtick", "'"}}
      j    == Min(refs)
  IN  IF refs = {} THEN repl
      ELSE SubSeq(repl, 1, j - 1)
           \o (CASE repl[j + 1] = "$" -> <<"$">>
                 [] repl[j + 1] = "&" -> matched
                 [] repl[j + 1] = "backtick" -> before
                 [] repl[j + 1] = "'" -> after)
           \o GetSubstitution(From(repl, j + 2), matched, before, after)

\* s.replace(pattern, replacement) with a string pattern: the first
\* occurrence only, the replacement expanded by GetSubstitution
StringReplace(s, pattern, replacement) ==
  LET i == IndexOf(s, pattern)
  IN  IF i = 0 THEN s
      ELSE LET before == SubSeq(s, 1, i - 1)
               after  == From(s, i + Len(pattern))
           IN  before \o GetSubstitution(replacement, pattern, before, after) \o after

\* ------------------------------------------------------------------------
\* cleanText, one operator per statement
\* ------------------------------------------------------------------------
\* the template literal <<<URL_${n}>>>
Placeholder(n) == <<"<","<","<","U","R","L","_">> \o Digits(n) \o <<">",">",">">>

\* const PARA = '<<<__PARA__>>>'
PARA == <<"<","<","<","_","_","P","A","R","A","_","_",">",">",">">>

\* \b at position i of s (between s[i-1] and s[i])
WordBoundary(s, i) ==
  LET prevW == i > 1 /\ i - 1 <= Len(s) /\ s[i - 1] \in WordChars
      curW  == i >= 1 /\ i <= Len(s) /\ s[i] \in WordChars
  IN  prevW # curW

\* the end of the maximal run of [^\s\]] that starts at i (i - 1 when empty)
UrlBodyEnd(s, i) ==
  LET stop(j) == s[j] \in SpaceChars \/ s[j] = "]"
  IN  IF i > Len(s) \/ stop(i) THEN i - 1
      ELSE CHOOSE e \in i..Len(s) :
             /\ \A k \in i..e : ~stop(k)
             /\ (e = Len(s) \/ stop(e + 1))

\* https?:\/\/[^\s\]]+ matched at i: the end of the match, 0 when none
HttpMatchEnd(s, i) ==
  IF ~OccursAt(s, <<"h","t","t","p">>, i) THEN 0
  ELSE LET j == IF i + 4 <= Len(s) /\ s[i + 4] = "s" THEN i + 5 ELSE i + 4
           e == UrlBodyEnd(s, j + 3)
       IN  IF OccursAt(s, <<":","/","/">>, j) /\ e >= j + 3 THEN e ELSE 0

\* \b[a-zA-Z0-9._%+-]+@[a-zA-Z0-9.-]+\.[a-zA-Z]{2,}\b matched at i: the end
\* of the match, 0 when none.  The local part is the maximal run before
\* "@"; the domain is cut at the last "." that a run of two or more letters
\* ending at a word boundary follows.
EmailMatchEnd(s, i) ==
  LET le == RunEnd(s, i, EmailLocal)
      d0 == le + 2
      de == RunEnd(s, d0, EmailDomain)
      tldEnd(k) == RunEnd(s, k + 2, AsciiLetters)
      cuts == {k \in d0..(de - 1) :
                 /\ s[k + 1] = "."
                 /\ tldEnd(k) >= k + 3
                 /\ WordBoundary(s, tldEnd(k) + 1)}
  IN  IF /\ WordBoundary(s, i)
         /\ le >= i
         /\ le + 1 <= Len(s)
         /\ s[le + 1] = "@"
         /\ cuts # {}
      THEN tldEnd(Max(cuts))
      ELSE 0

\* urlRegex matched at i: the first alternative that matches wins
UrlMatchEnd(s, i) ==
  IF HttpMatchEnd(s, i) # 0 THEN HttpMatchEnd(s, i) ELSE EmailMatchEnd(s, i)

\* Step 1: text.replace(urlRegex, match => placeholder), with urlMap and
\* urlCounter; urls[n + 1] is urlMap.get("<<<URL_n>>>")
RECURSIVE ProtectFrom(_, _, _)
ProtectFrom(s, i, urls) ==
  LET starts == {j \in i..Len(s) : UrlMatchEnd(s, j) # 0}
      j      == Min(starts)
      e      == UrlMatchEnd(s, j)
      rest   == ProtectFrom(s, e + 1, Append(urls, SubSeq(s, j, e)))
  IN  IF starts = {} THEN [text |-> From(s, i), urls |-> urls]
      ELSE [text |-> SubSeq(s, i, j - 1) \o Placeholder(Len(urls)) \o rest.text,
            urls |-> rest.urls]

ProtectUrls(s) == ProtectFrom(s, 1, <<>>)

\* the last line break of s[lo..hi], 0 when none
LastNewline(s, lo, hi) ==
  LET nl == {j \in lo..hi : s[j] = "\n"}
  IN  IF nl = {} THEN 0 ELSE Max(nl)

\* /-\s*\n/ matched at i: the end of the match, 0 when none
HyphenMatchEnd(s, i) ==
  IF s[i] = "-" THEN LastNewline(s, i + 1, RunEnd(s, i + 1, SpaceChars)) ELSE 0

\* /\n{2,}/ matched at i
ParagraphMatchEnd(s, i) ==
  LET e == RunEnd(s, i, {"\n"}) IN IF e >= i + 1 THEN e ELSE 0

\* /\n/ matched at i
NewlineMatchEnd(s, i) == IF s[i] = "\n" THEN i ELSE 0

\* /([first])([second])/ matched at i
PairMatchEnd(s, i, first, second) ==
  IF i < Len(s) /\ s[i] \in first /\ s[i + 1] \in second THEN i + 1 ELSE 0

\* /([.!?])([A-ZĂÂÎȘȚ])/ matched at i
SentenceMatchEnd(s, i) == PairMatchEnd(s, i, SentenceEnd, UpperRo)

\* /([a-zăâîșț])([A-ZĂÂÎȘȚ])/ matched at i
LowerUpperMatchEnd(s, i) == PairMatchEnd(s, i, LowerRo, UpperRo)

\* /\b<word>([last])/ matched at i
WordMatchEnd(s, i, word, last) ==
  IF /\ WordBoundary(s, i)
     /\ OccursAt(s, word, i)
     /\ i + Len(word) <= Len(s)
     /\ s[i + Len(word)] \in last
  THEN i + Len(word)
  ELSE 0

\* /\bul([A-ZĂÂÎȘȚ])/ matched at i
UlMatchEnd(s, i) == WordMatchEnd(s, i, <<"u","l">>, UpperRo)

\* /\bsă([îi])/ matched at i
SaMatchEnd(s, i) == WordMatchEnd(s, i, <<"s","a-breve">>, {"i-circ","i"})

\* new RegExp(PARA) matched at i
ParaTokenMatchEnd(s, i) == IF OccursAt(s, PARA, i) THEN i + Len(PARA) - 1 ELSE 0

\* /[ \t]+/ matched at i
BlanksMatchEnd(s, i) ==
  LET e == RunEnd(s, i, BlankChars) IN IF e >= i THEN e ELSE 0

\* /\n\s+\n/ matched at i
BlankLinesMatchEnd(s, i) ==
  IF s[i] = "\n" THEN LastNewline(s, i + 2, RunEnd(s, i + 1, SpaceChars)) ELSE 0

\* /\s+([,!?;:])/ matched at i
SpacePunctMatchEnd(s, i) ==
  LET e == RunEnd(s, i, SpaceChars)
  IN  IF e >= i /\ e < Len(s) /\ s[e + 1] \in PunctChars THEN e + 1 ELSE 0

\* /([,!?;:])\s*([a-zA-ZăâîșțĂÂÎȘȚ])/ matched at i
PunctLetterMatchEnd(s, i) ==
  LET e == RunEnd(s, i + 1, SpaceChars)
  IN  IF s[i] \in PunctChars /\ e < Len(s) /\ s[e + 1] \in (LowerRo \cup UpperRo)
      THEN e + 1
      ELSE 0

\* the regular expression named rx matched at i of s: the end of the match,
\* 0 when there is none
MatchEnd(rx, s, i) ==
  CASE rx = "hyphen"      -> HyphenMatchEnd(s, i)
    [] rx = "paragraph"   -> ParagraphMatchEnd(s, i)
    [] rx = "newline"     -> NewlineMatchEnd(s, i)
    [] rx = "sentence"    -> SentenceMatchEnd(s, i)
    [] rx = "lowerupper"  -> LowerUpperMatchEnd(s, i)
    [] rx = "ul"          -> UlMatchEnd(s, i)
    [] rx = "sa"          -> SaMatchEnd(s, i)
    [] rx = "paratoken"   -> ParaTokenMatchEnd(s, i)
    [] rx = "blanks"      -> BlanksMatchEnd(s, i)
    [] rx = "blanklines"  -> BlankLinesMatchEnd(s, i)
    [] rx = "spacepunct"  -> SpacePunctMatchEnd(s, i)
    [] rx = "punctletter" -> PunctLetterMatchEnd(s, i)

\* what the statement of rx puts for the match s[j..e]: '', PARA, ' ',
\* '$1 $2', 'ul $1', '\n\n' or '$1'
Replacement(rx, s, j, e) ==
  CASE rx = "hyphen"      -> <<>>
    [] rx = "paragraph"   -> PARA
    [] rx = "newline"     -> <<" ">>
    [] rx = "sentence"    -> <<s[j], " ", s[e]>>
    [] rx = "lowerupper"  -> <<s[j], " ", s[e]>>
    [] rx = "ul"          -> SubSeq(s, j, e - 1) \o <<" ", s[e]>>
    [] rx = "sa"          -> SubSeq(s, j, e - 1) \o <<" ", s[e]>>
    [] rx = "paratoken"   -> <<"\n", "\n">>
    [] rx = "blanks"      -> <<" ">>
    [] rx = "blanklines"  -> <<"\n", "\n">>
    [] rx = "spacepunct"  -> <<s[e]>>
    [] rx = "punctletter" -> <<s[j], " ", s[e]>>

\* s.replace(regex, replacement) with a global regular expression, from
\* position i on: the matches are taken from left to right, without overlap
RECURSIVE RegexReplaceFrom(_, _, _)
RegexReplaceFrom(s, i, rx) ==
  LET starts == {j \in i..Len(s) : MatchEnd(rx, s, j) # 0}
      j      == Min(starts)
      e      == MatchEnd(rx, s, j)
  IN  IF starts = {} THEN From(s, i)
      ELSE SubSeq(s, i, j - 1) \o Replacement(rx, s, j, e) \o RegexReplaceFrom(s, e + 1, rx)

RegexReplace(s, rx) == RegexReplaceFrom(s, 1, rx)

\* Step 2: text.replace(/-\s*\n/g, '')
UndoHyphenation(s) == RegexReplace(s, "hyphen")

\* Step 3: text.replace(/\n{2,}/g, PARA)
MarkParagraphs(s) == RegexReplace(s, "paragraph")

\* Step 4: text.replace(/\n/g, ' ')
CollapseNewlines(s) == RegexReplace(s, "newline")

\* Step 5: text.replace(/([.!?])([A-ZĂÂÎȘȚ])/g, '$1 $2')
SpaceAfterSentence(s) == RegexReplace(s, "sentence")

\* step 6 left out: the text as step 5 gave it
SpaceLowerUpperOff(s) == s

\* Step 6: text.replace(/([a-zăâîșț])([A-ZĂÂÎȘȚ])/g, '$1 $2')
SpaceLowerUpper(s) == RegexReplace(s, "lowerupper")

\* Step 7: text.replace(/\bul([A-ZĂÂÎȘȚ])/g, 'ul $1') and
\* text.replace(/\bsă([îi])/g, 'să $1')
RomanianRules(s) == RegexReplace(RegexReplace(s, "ul"), "sa")

\* Step 8: text.replace(new RegExp(PARA, 'g'), '\n\n')
RestoreParagraphs(s) == RegexReplace(s, "paratoken")

\* Step 9: text.replace(/[ \t]+/g, ' ') and text.replace(/\n\s+\n/g, '\n\n')
CollapseWhitespace(s) == RegexReplace(RegexReplace(s, "blanks"), "blanklines")

\* step 10 without its second statement: no space is put after punctuation
PunctuationSpacingBefore(s) == RegexReplace(s, "spacepunct")

\* Step 10: text.replace(/\s+([,!?;:])/g, '$1') and
\* text.replace(/([,!?;:])\s*([a-zA-ZăâîșțĂÂÎȘȚ])/g, '$1 $2')
PunctuationSpacing(s) == RegexReplace(RegexReplace(s, "spacepunct"), "punctletter")

\* Step 11, one iteration of the loop over urlMap:
\* text = text.replace(placeholder, originalUrl)
RestoreUrl(s, n, originalUrl) == StringReplace(s, Placeholder(n), originalUrl)

\* Step 11, the whole loop, for the entries n+1.. of urls
RECURSIVE RestoreUrlsFrom(_, _, _)
RestoreUrlsFrom(s, n, urls) ==
  IF n >= Len(urls) THEN s
  ELSE RestoreUrlsFrom(RestoreUrl(s, n, urls[n + 1]), n + 1, urls)

\* cleanText as a function of its argument
CleanText(t) ==
  LET p == ProtectUrls(t)
  IN  Trim(RestoreUrlsFrom(
        PunctuationSpacing(CollapseWhitespace(RestoreParagraphs(RomanianRules(
          SpaceLowerUpper(SpaceAfterSentence(CollapseNewlines(MarkParagraphs(
            UndoHyphenation(p.text))))))))),
        0, p.urls))

\* ------------------------------------------------------------------------
\* renderPage: the text of a page and its links
\* ------------------------------------------------------------------------
\* the margin of the overlap test, the literal 10 of the filter
Tolerance == 10

\* the filter with strict comparisons turned into weak ones: a run that only
\* touches the grown rectangle is left out
OverlapsInside(item, rect) ==
  LET itemRight == item.x + item.width
      itemTop   == item.y + item.height
  IN  ~(\/ item.x >= rect[3] + Tolerance
        \/ itemRight <= rect[1] - Tolerance
        \/ item.y >= rect[4] + Tolerance
        \/ itemTop <= rect[2] - Tolerance)

\* the filter of overlappingTexts: item against the rectangle <<x1, y1, x2, y2>>
Overlaps(item, rect) ==
  LET itemRight == item.x + item.width
      itemTop   == item.y + item.height
  IN  ~(\/ item.x > rect[3] + Tolerance
        \/ itemRight < rect[1] - Tolerance
        \/ item.y > rect[4] + Tolerance
        \/ itemTop < rect[2] - Tolerance)

\* textItems.filter(overlap): the overlapping items, in extraction order
RECURSIVE OverlappingTexts(_, _)
OverlappingTexts(items, rect) ==
  IF items = <<>> THEN <<>>
  ELSE (IF Overlaps(Head(items), rect) THEN <<Head(items)>> ELSE <<>>)
       \o OverlappingTexts(Tail(items), rect)

\* overlappingTexts.map(item => item.str).join('').trim()
LinkText(items, rect) ==
  LET over == OverlappingTexts(items, rect)
  IN  Trim(Concat([i \in 1..Len(over) |-> over[i].str]))

\* the template literal [${linkText}](${url})
MarkdownLink(linkText, url) == <<"[">> \o linkText \o <<"]", "(">> \o url \o <<")">>

\* the orphan line appended for a link without text: \n\n[Link](${url})
OrphanLink(url) == <<"\n", "\n">> \o MarkdownLink(<<"L","i","n","k">>, url)

\* the test without the subtype: every annotation with a URL is a link
HasUrl(annotation) == annotation.url # <<>>

\* annotation.subtype === 'Link' && annotation.url
IsLink(annotation) == annotation.subtype = "Link" /\ annotation.url # <<>>

\* the body of the loop over annotations: finalText after one annotation
ApplyAnnotation(ft, items, annotation) ==
  IF ~IsLink(annotation) THEN ft
  ELSE IF OverlappingTexts(items, annotation.rect) # <<>>
  THEN LET linkText == LinkText(items, annotation.rect)
       IN  IF linkText # <<>>
           THEN StringReplace(ft, linkText, MarkdownLink(linkText, annotation.url))
           ELSE ft
  ELSE ft \o OrphanLink(annotation.url)

\* the heading of a page, ## Page ${pageCounter}
PageHeading(n) == <<"#","#"," ","P","a","g","e"," ">> \o Digits(n)

\* what renderPage returns: \n\n## Page ${pageCounter}\n\n${finalText}\n
PageBlock(n, ft) == <<"\n","\n">> \o PageHeading(n) \o <<"\n","\n">> \o ft \o <<"\n">>

\* ------------------------------------------------------------------------
\* pdfToMarkdown: the assembly
\* ------------------------------------------------------------------------
\* cleaned.split(/\n{2,}/)
RECURSIVE SplitParagraphs(_)
SplitParagraphs(s) ==
  LET starts == {j \in 1..Len(s) : ParagraphMatchEnd(s, j) # 0}
      j      == Min(starts)
  IN  IF starts = {} THEN <<s>>
      ELSE <<SubSeq(s, 1, j - 1)>> \o SplitParagraphs(From(s, ParagraphMatchEnd(s, j) + 1))

\* para.match(/^## Page \d+$/)
IsPageHeader(para) ==
  /\ Len(para) >= 9
  /\ OccursAt(para, <<"#","#"," ","P","a","g","e"," ">>, 1)
  /\ \A i \in 9..Len(para) : para[i] \in DigitChars

\* the loop over paragraphs: the lines pushed to mdLines
RECURSIVE ParagraphLines(_)
ParagraphLines(paragraphs) ==
  IF paragraphs = <<>> THEN <<>>
  ELSE LET para == Trim(Head(paragraphs))
       IN  (IF para = <<>> \/ IsPageHeader(para) THEN <<>> ELSE <<para, <<>> >>)
           \o ParagraphLines(Tail(paragraphs))

\* path.basename(p): what follows the last "/"
BaseName(p) ==
  LET slashes == {j \in 1..Len(p) : p[j] = "/"}
  IN  IF slashes = {} THEN p ELSE From(p, Max(slashes) + 1)

\* path.extname(p): from the last "." of the base name, if that is not its
\* first character
ExtName(p) ==
  LET b    == BaseName(p)
      dots == {j \in 2..Len(b) : b[j] = "."}
  IN  IF dots = {} THEN <<>> ELSE From(b, Max(dots))

\* path.basename(p, ext): the base name without the suffix ext
BaseNameWithout(p, ext) ==
  LET b == BaseName(p)
  IN  IF /\ ext # <<>>
         /\ Len(b) > Len(ext)
         /\ OccursAt(b, ext, Len(b) - Len(ext) + 1)
      THEN SubSeq(b, 1, Len(b) - Len(ext))
      ELSE b

\* the four lines ahead of the body
HeaderLines(name) ==
  << <<"#"," ">> \o BaseNameWithout(name, ExtName(name)),
     <<>>,
     <<"*","C","o","n","v","e","r","t","e","d"," ","f","r","o","m"," ","P","D","F",":"," ">> \o BaseName(name) \o <<"*">>,
     <<>> >>

\* mdLines.join('\n')
RECURSIVE JoinLines(_)
JoinLines(lines) ==
  IF lines = <<>> THEN <<>>
  ELSE IF Len(lines) = 1 THEN lines[1]
  ELSE lines[1] \o <<"\n">> \o JoinLines(Tail(lines))

\* ------------------------------------------------------------------------
\* pdfFileToMarkdownFile: the paths
\* ------------------------------------------------------------------------
\* process.cwd()
Cwd == <<"/","w">>

\* path.resolve(p): p when it is absolute, p under the working directory
\* otherwise
Resolve(p) == IF p # <<>> /\ p[1] = "/" THEN p ELSE Cwd \o <<"/">> \o p

\* path.dirname(p) of an absolute path: what is before the last "/", "/" for
\* an entry of the root
DirName(p) ==
  LET last == Max({j \in 1..Len(p) : p[j] = "/"})
  IN  IF last = 1 THEN <<"/">> ELSE SubSeq(p, 1, last - 1)

\* /\.pdf$/i matches p
EndsInPdf(p) ==
  LET n == Len(p)
  IN  /\ n >= 4
      /\ p[n - 3] = "."
      /\ p[n - 2] \in {"p", "P"}
      /\ p[n - 1] \in {"d", "D"}
      /\ p[n] \in {"f", "F"}

\* absIn.replace(/\.pdf$/i, '.md')
DefaultOut(absIn) ==
  IF EndsInPdf(absIn) THEN SubSeq(absIn, 1, Len(absIn) - 4) \o <<".", "m", "d">>
  ELSE absIn

\* path.resolve(outputPath || defaultOut)
AbsOut(absIn, out) == Resolve(IF out # <<>> THEN out ELSE DefaultOut(absIn))

\* the directories fs.mkdirSync(dir, { recursive: true }) makes sure of:
\* dir and every directory above it
DirsTo(dir) ==
  {<<"/">>} \cup {SubSeq(dir, 1, j) : j \in {k \in 2..Len(dir) : k = Len(dir) \/ dir[k + 1] = "/"}}

\* PDF file not found: ${absIn}
NotFound(absIn) == <<"P","D","F"," ","f","i","l","e"," ","n","o","t"," ","f","o","u","n","d",":"," ">> \o absIn

\* ------------------------------------------------------------------------
\* The inputs: what the extraction collaborator supplies, and the file name
\* ------------------------------------------------------------------------
\* the most pages of a document
MaxPages == 2

\* the most glyph runs of a document, over all its pages
MaxRuns == 2

\* the most annotations of a document, over all its pages
MaxAnnots == 2

\* the most fragments of a text handed to the normalizer directly
MaxFrags == 4

\* tc.items: glyph runs with their text, origin, width and height
Run(str, x, y, width, height) ==
  [str |-> str, x |-> x, y |-> y, width |-> width, height |-> height]

RunPool ==
  { Run(<<"G","o">>, 0, 100, 20, 10),
    Run(<<" ","G","o">>, 40, 100, 20, 10),
    Run(<<"o","n">>, 0, 80, 20, 10),
    Run(<<" ">>, 200, 100, 5, 10),
    Run(<<"a","-">>, 300, 60, 10, 10) }

\* page.getAnnotations(): subtype, url (empty when the annotation has none)
\* and rect <<x1, y1, x2, y2>>
Annotation(subtype, url, rect) == [subtype |-> subtype, url |-> url, rect |-> rect]

AnnPool ==
  { Annotation("Link", <<"h","t","t","p","s",":","/","/","s",".","c","o","/","$","&">>, <<0, 100, 20, 110>>),
    Annotation("Link", <<"h","t","t","p",":","/","/","a",".","b","/","C">>, <<40, 100, 60, 110>>),
    Annotation("Link", <<"w","w","w",".","E","x",".","c","o">>, <<200, 100, 205, 110>>),
    Annotation("Widget", <<"h","t","t","p",":","/","/","a",".","b","/","C">>, <<0, 100, 20, 110>>),
    Annotation("Link", <<>>, <<0, 100, 20, 110>>) }

\* the sequences over S of length n
RECURSIVE SeqsOfLen(_, _)
SeqsOfLen(S, n) ==
  IF n = 0 THEN {<<>>}
  ELSE {Append(q, x) : q \in SeqsOfLen(S, n - 1), x \in S}

\* a page as the extraction collaborator answers for it: the items of
\* page.getTextContent() unless that promise rejects, the annotations of
\* page.getAnnotations() unless that promise rejects
Page(items, annotations, textFails, annotationsFail) ==
  [items |-> items, annotations |-> annotations,
   textFails |-> textFails, annotationsFail |-> annotationsFail]

\* the documents of exactly p pages with at most r runs and a annotations; a
\* page whose text content or whose annotations cannot be read delivers none
RECURSIVE DocsOf(_, _, _)
DocsOf(p, r, a) ==
  IF p = 0 THEN {<<>>}
  ELSE UNION { UNION { { <<Page(it, an, FALSE, FALSE)>> \o d :
                           it \in SeqsOfLen(RunPool, nr),
                           an \in SeqsOfLen(AnnPool, na),
                           d \in DocsOf(p - 1, r - nr, a - na) } :
                       na \in 0..a } :
               nr \in 0..r }
       \cup UNION { { <<Page(it, <<>>, FALSE, TRUE)>> \o d :
                        it \in SeqsOfLen(RunPool, nr),
                        d \in DocsOf(p - 1, r - nr, a) } :
                    nr \in 0..r }
       \cup { <<Page(<<>>, <<>>, TRUE, FALSE)>> \o d : d \in DocsOf(p - 1, r, a) }

Docs == UNION {DocsOf(p, MaxRuns, MaxAnnots) : p \in 1..MaxPages}

FileNames == { <<"d","o","c",".","p","d","f">> }

\* the messages of the errors PDFJS.getDocument rejects with
Messages == { <<"b","a","d"," ","X","R","e","f">> }

\* texts for the normalizer: up to MaxFrags fragments, one after the other
FragPool ==
  { <<"a">>, <<"B">>, <<"-">>, <<"\n">>, <<"\n", "\n">>, <<" ">>, <<",">>,
    <<"h","t","t","p",":","/","/","x",".","y","/","$","&">>,
    <<"c","@","d",".","e","u">>,
    Placeholder(0), PARA }

TextInputs == {Concat(q) : q \in UNION {SeqsOfLen(FragPool, n) : n \in 0..MaxFrags}}

\* prose for the normalizer: letters, punctuation, a digit, white space, the
\* word "sa" with a-breve, and a URL that ends in "$" and a backtick
ProsePool ==
  { <<"i">>, <<"B">>, <<",">>, <<".">>, <<"1">>, <<" ">>, <<"\n">>,
    <<"s","a-breve">>,
    <<"h","t","t","p",":","/","/","x",".","y","/","$","backtick">> }

ProseInputs == {Concat(q) : q \in UNION {SeqsOfLen(ProsePool, n) : n \in 0..MaxFrags}}

\* the bytes of a PDF file, as fs.readFileSync gives them
PdfBytes == <<"%","P","D","F">>

\* the files and the directories on the disk before the call
InitialFiles ==
  [p \in { <<"/","w","/","d","o","c",".","p","d","f">>, <<"/","w","/","s","c","a","n">>, <<"/","w","/","b",".","P","D","F">> } |-> PdfBytes]

InitialDirs == { <<"/">>, Cwd }

\* inputPath: relative, without extension, with an uppercase extension,
\* and one that is not on the disk
InputPaths == { <<"d","o","c",".","p","d","f">>, <<"/","w","/","s","c","a","n">>, <<"/","w","/","b",".","P","D","F">>, <<"/","w","/","n","o",".","p","d","f">> }

\* outputPath: omitted, in the directory of the input, in a directory that
\* is not on the disk
OutputPaths == { <<>>, <<"/","w","/","o","u","t",".","m","d">>, <<"/","n","/","o","u","t",".","m","d">> }

\* a glyph run that reads like a page heading
HeadingRun == Run(<<"#","#"," ","P","a","g","e"," ","7">>, 0, 100, 60, 10)

\* the documents the files of the disk can hold
FileDocs ==
  { <<Page(<<Run(<<"G","o">>, 0, 100, 20, 10)>>,
           <<Annotation("Link", <<"h","t","t","p",":","/","/","a",".","b","/","C">>, <<0, 100, 20, 110>>)>>, FALSE, FALSE)>>,
    <<Page(<<HeadingRun>>, <<>>, FALSE, FALSE)>>,
    <<Page(<<>>, <<>>, TRUE, FALSE), Page(<<Run(<<"o","n">>, 0, 80, 20, 10)>>, <<>>, FALSE, TRUE)>> }

\* ------------------------------------------------------------------------
\* The state
\* ------------------------------------------------------------------------
VARIABLES
  pc,           \* the statement pdfToMarkdown is at
  pages,        \* the document as the extraction collaborator supplies it
  filename,     \* the parameter filename
  openError,    \* the message PDFJS.getDocument rejects with, <<>> if it resolves
  pageNo,       \* the page pdf-parse is rendering
  tcState,      \* textPromise: "pending", "resolved" or "rejected"
  anState,      \* annotationsPromise: "pending" or "resolved"
  annotations,  \* the value annotationsPromise resolved with
  itemNo,       \* the next item of tc.items
  lastY,        \* <<>> while undefined, <<y>> afterwards
  text,         \* the text of the page, renderPage
  annNo,        \* the next annotation
  finalText,    \* the text of the page with its links
  pageCounter,
  pageTexts,    \* what pagerender gave for each page so far
  dataText,     \* data.text, the concatenation of the page renderings
  fullText,     \* the argument of cleanText
  cleanTxt,     \* the variable text of cleanText
  urlMap,       \* the protected spans, in insertion order
  urlNo,        \* the next entry of urlMap to restore
  cleaned,
  mdLines,
  finalContent,
  error         \* <<>>, or <<e>> with e the Error pdfToMarkdown threw

VARIABLES
  fpc,          \* the statement pdfFileToMarkdownFile is at, "none" without it
  inputPath,    \* the parameter inputPath
  outputPath,   \* the parameter outputPath, <<>> when omitted
  absOut,       \* <<>> before line 228
  files,        \* the files of the disk and their contents
  dirs          \* the directories of the disk

vars == <<pc, pages, filename, openError, pageNo, tcState, anState, annotations,
          itemNo, lastY, text, annNo, finalText, pageCounter, pageTexts,
          dataText, fullText, cleanTxt, urlMap, urlNo, cleaned, mdLines,
          finalContent, error, fpc, inputPath, outputPath, absOut, files, dirs>>

fileVars == <<fpc, inputPath, outputPath, absOut, files, dirs>>

renderVars == <<pageNo, tcState, anState, annotations, itemNo, lastY, text, annNo,
                finalText, pageCounter, pageTexts, dataText>>

cleanVars == <<fullText, cleanTxt, urlMap, urlNo, cleaned>>

outVars == <<mdLines, finalContent, error>>

\* pdfToMarkdown is called directly, not by pdfFileToMarkdownFile
NoFileCall ==
  /\ fpc = "none"
  /\ inputPath = <<>>
  /\ outputPath = <<>>
  /\ absOut = <<>>
  /\ files = InitialFiles
  /\ dirs = InitialDirs

\* the locals of pdfToMarkdown, of renderPage and of cleanText before the call
Fresh ==
  /\ pageNo = 1
  /\ tcState = "pending"
  /\ anState = "pending"
  /\ annotations = <<>>
  /\ itemNo = 1
  /\ lastY = <<>>
  /\ text = <<>>
  /\ annNo = 1
  /\ finalText = <<>>
  /\ pageCounter = 0
  /\ pageTexts = <<>>
  /\ fullText = <<>>
  /\ cleanTxt = <<>>
  /\ urlMap = <<>>
  /\ urlNo = 0
  /\ cleaned = <<>>
  /\ mdLines = <<>>
  /\ finalContent = <<>>
  /\ error = <<>>

\* pdfToMarkdown is called with a document and a file name; the document is
\* readable, or PDFJS.getDocument rejects
Init ==
  /\ pc = "open"
  /\ \/ openError = <<>> /\ pages \in Docs
     \/ openError \in Messages /\ pages = <<>>
  /\ filename \in FileNames
  /\ dataText = <<>>
  /\ Fresh
  /\ NoFileCall

\* pdfParse has resolved with some text: the normalizer and the assembly on
\* a text of any content
InitClean ==
  /\ pc = "parsed"
  /\ openError = <<>>
  /\ pages = <<>>
  /\ filename \in FileNames
  /\ dataText \in TextInputs
  /\ Fresh
  /\ NoFileCall

\* pdfParse has resolved with prose
InitProse ==
  /\ pc = "parsed"
  /\ openError = <<>>
  /\ pages = <<>>
  /\ filename \in FileNames
  /\ dataText \in ProseInputs
  /\ Fresh
  /\ NoFileCall

\* pdfFileToMarkdownFile is called with an input path and, or not, an
\* output path; the file of the input path, when there is one, holds a
\* document that is readable or not
InitFile ==
  /\ pc = "idle"
  /\ fpc = "start"
  /\ inputPath \in InputPaths
  /\ outputPath \in OutputPaths
  /\ absOut = <<>>
  /\ files = InitialFiles
  /\ dirs = InitialDirs
  /\ \/ openError = <<>> /\ pages \in FileDocs
     \/ openError \in Messages /\ pages = <<>>
  /\ filename = <<>>
  /\ dataText = <<>>
  /\ Fresh

\* ------------------------------------------------------------------------
\* pdfParse: the document is opened, then one page after the other is
\* rendered by renderPage
\* ------------------------------------------------------------------------
\* the same text without the message of the cause
ProcessingErrorNoCause(message) ==
  <<"E","r","r","o","r"," ","p","r","o","c","e","s","s","i","n","g"," ","P","D","F">>

\* Error processing PDF: ${e.message}
ProcessingError(message) ==
  <<"E","r","r","o","r"," ","p","r","o","c","e","s","s","i","n","g"," ","P","D","F",":"," ">>
    \o message

\* PDFJS.getDocument resolves; pdf-parse calls pagerender for the first page,
\* which asks for the text content and for the annotations
OpenDocument ==
  /\ pc = "open"
  /\ openError = <<>>
  /\ pc' = "await"
  /\ UNCHANGED <<pages, filename, openError, fileVars, renderVars, cleanVars, outVars>>

\* PDFJS.getDocument rejects; pdfParse rejects, and the catch clause throws
OpenFails ==
  /\ pc = "open"
  /\ openError # <<>>
  /\ error' = <<[message |-> ProcessingError(openError)]>>
  /\ pc' = "failed"
  /\ UNCHANGED <<pages, filename, openError, fileVars, renderVars, cleanVars, mdLines, finalContent>>

\* textPromise resolves with tc
TextResolves ==
  /\ pc = "await"
  /\ tcState = "pending"
  /\ ~pages[pageNo].textFails
  /\ tcState' = "resolved"
  /\ UNCHANGED <<pc, pages, filename, openError, fileVars, pageNo, anState, annotations, itemNo,
                 lastY, text, annNo, finalText, pageCounter, pageTexts, dataText>>
  /\ UNCHANGED <<cleanVars, outVars>>

\* textPromise rejects
TextRejects ==
  /\ pc = "await"
  /\ tcState = "pending"
  /\ pages[pageNo].textFails
  /\ tcState' = "rejected"
  /\ UNCHANGED <<pc, pages, filename, openError, fileVars, pageNo, anState, annotations, itemNo,
                 lastY, text, annNo, finalText, pageCounter, pageTexts, dataText>>
  /\ UNCHANGED <<cleanVars, outVars>>

\* page.getAnnotations() settles; .catch(() => []) turns a rejection into the
\* empty list
AnnotationsSettle ==
  /\ pc = "await"
  /\ anState = "pending"
  /\ annotations' = IF pages[pageNo].annotationsFail THEN <<>>
                    ELSE pages[pageNo].annotations
  /\ anState' = "resolved"
  /\ UNCHANGED <<pc, pages, filename, openError, fileVars, pageNo, tcState, itemNo,
                 lastY, text, annNo, finalText, pageCounter, pageTexts, dataText>>
  /\ UNCHANGED <<cleanVars, outVars>>

\* only textPromise is waited for
TextResolved == tcState = "resolved"

\* Promise.all([textPromise, annotationsPromise]) is fulfilled
AllResolved == tcState = "resolved" /\ anState = "resolved"

\* the then-callback of renderPage is entered: let lastY; let text = ''
ThenCallback ==
  /\ pc = "await"
  /\ AllResolved
  /\ itemNo' = 1
  /\ lastY' = <<>>
  /\ text' = <<>>
  /\ pc' = "items"
  /\ UNCHANGED <<pages, filename, openError, fileVars, pageNo, tcState, anState, annotations,
                 annNo, finalText, pageCounter, pageTexts, dataText>>
  /\ UNCHANGED <<cleanVars, outVars>>

\* pdf-parse has the rendering of the page: ret.text gets two line breaks and
\* the rendering, and the loop goes to the next page, or pdfParse resolves
PageRendered(pageText) ==
  /\ pageTexts' = Append(pageTexts, pageText)
  /\ dataText' = dataText \o <<"\n","\n">> \o pageText
  /\ IF pageNo < Len(pages)
     THEN /\ pageNo' = pageNo + 1
          /\ tcState' = "pending"
          /\ anState' = "pending"
          /\ pc' = "await"
     ELSE /\ pc' = "parsed"
          /\ UNCHANGED <<pageNo, tcState, anState>>

\* Promise.all rejects as textPromise did; pdf-parse catches the rejection
\* of pagerender and takes the empty string for the page
RenderFails ==
  /\ pc = "await"
  /\ tcState = "rejected"
  /\ PageRendered(<<>>)
  /\ UNCHANGED <<pages, filename, openError, fileVars, annotations, itemNo, lastY, text, annNo,
                 finalText, pageCounter>>
  /\ UNCHANGED <<cleanVars, outVars>>

\* one iteration of the loop over tc.items that never starts a new line
RenderItemNoBreak ==
  /\ pc = "items"
  /\ itemNo <= Len(pages[pageNo].items)
  /\ text' = text \o pages[pageNo].items[itemNo].str
  /\ lastY' = <<pages[pageNo].items[itemNo].y>>
  /\ itemNo' = itemNo + 1
  /\ UNCHANGED <<pc, pages, filename, openError, fileVars, pageNo, tcState, anState, annotations,
                 annNo, finalText, pageCounter, pageTexts, dataText>>
  /\ UNCHANGED <<cleanVars, outVars>>

\* one iteration of the loop over tc.items
RenderItem ==
  /\ pc = "items"
  /\ itemNo <= Len(pages[pageNo].items)
  /\ LET item == pages[pageNo].items[itemNo]
     IN  /\ text' = IF lastY = <<item.y>> \/ lastY = <<>>
                    THEN text \o item.str
                    ELSE text \o <<"\n">> \o item.str
         /\ lastY' = <<item.y>>
  /\ itemNo' = itemNo + 1
  /\ UNCHANGED <<pc, pages, filename, openError, fileVars, pageNo, tcState, anState, annotations,
                 annNo, finalText, pageCounter, pageTexts, dataText>>
  /\ UNCHANGED <<cleanVars, outVars>>

\* let finalText = text
StartLinks ==
  /\ pc = "items"
  /\ itemNo > Len(pages[pageNo].items)
  /\ finalText' = text
  /\ annNo' = 1
  /\ pc' = "links"
  /\ UNCHANGED <<pages, filename, openError, fileVars, pageNo, tcState, anState, annotations,
                 itemNo, lastY, text, pageCounter, pageTexts, dataText>>
  /\ UNCHANGED <<cleanVars, outVars>>

\* one iteration of the loop over annotations
ProcessAnnotation ==
  /\ pc = "links"
  /\ annNo <= Len(annotations)
  /\ finalText' = ApplyAnnotation(finalText, pages[pageNo].items, annotations[annNo])
  /\ annNo' = annNo + 1
  /\ UNCHANGED <<pc, pages, filename, openError, fileVars, pageNo, tcState, anState, annotations,
                 itemNo, lastY, text, pageCounter, pageTexts, dataText>>
  /\ UNCHANGED <<cleanVars, outVars>>

\* pageCounter += 1 and the return of renderPage
FinishPage ==
  /\ pc = "links"
  /\ annNo > Len(annotations)
  /\ pageCounter' = pageCounter + 1
  /\ PageRendered(PageBlock(pageCounter + 1, finalText))
  /\ UNCHANGED <<pages, filename, openError, fileVars, annotations, itemNo, lastY, text, annNo,
                 finalText>>
  /\ UNCHANGED <<cleanVars, outVars>>

\* ------------------------------------------------------------------------
\* cleanText, statement by statement
\* ------------------------------------------------------------------------
\* let fullText = data.text; cleanText(fullText) is entered
CallCleanText ==
  /\ pc = "parsed"
  /\ fullText' = dataText
  /\ cleanTxt' = dataText
  /\ urlMap' = <<>>
  /\ urlNo' = 0
  /\ pc' = "protect"
  /\ UNCHANGED <<pages, filename, openError, fileVars, renderVars, cleaned, outVars>>

\* Step 1
Protect ==
  /\ pc = "protect"
  /\ cleanTxt' = ProtectUrls(cleanTxt).text
  /\ urlMap' = ProtectUrls(cleanTxt).urls
  /\ pc' = "hyphen"
  /\ UNCHANGED <<pages, filename, openError, fileVars, renderVars, fullText, urlNo, cleaned, outVars>>

\* a statement text = text.replace(...) of cleanText
Rewrite(at, next, result) ==
  /\ pc = at
  /\ cleanTxt' = result
  /\ pc' = next
  /\ UNCHANGED <<pages, filename, openError, fileVars, renderVars, fullText, urlMap, urlNo, cleaned, outVars>>

\* Step 2
Hyphenation == Rewrite("hyphen", "para", UndoHyphenation(cleanTxt))

\* Step 3
Paragraphs == Rewrite("para", "newline", MarkParagraphs(cleanTxt))

\* Step 4
Newlines == Rewrite("newline", "sentence", CollapseNewlines(cleanTxt))

\* Step 5
Sentences == Rewrite("sentence", "lowerupper", SpaceAfterSentence(cleanTxt))

\* Step 6
LowerUpper == Rewrite("lowerupper", "romanian", SpaceLowerUpper(cleanTxt))

\* Step 7
Romanian == Rewrite("romanian", "restorepara", RomanianRules(cleanTxt))

\* Step 8
RestorePara == Rewrite("restorepara", "collapse", RestoreParagraphs(cleanTxt))

\* Step 9
Collapse == Rewrite("collapse", "punct", CollapseWhitespace(cleanTxt))

\* Step 10
Punctuation == Rewrite("punct", "restoreurl", PunctuationSpacing(cleanTxt))

\* Step 11, one iteration of the loop over urlMap
RestoreOne ==
  /\ pc = "restoreurl"
  /\ urlNo < Len(urlMap)
  /\ cleanTxt' = RestoreUrl(cleanTxt, urlNo, urlMap[urlNo + 1])
  /\ urlNo' = urlNo + 1
  /\ UNCHANGED <<pc, pages, filename, openError, fileVars, renderVars, fullText, urlMap, cleaned, outVars>>

\* return text.trim()
ReturnCleaned ==
  /\ pc = "restoreurl"
  /\ urlNo >= Len(urlMap)
  /\ cleaned' = Trim(cleanTxt)
  /\ pc' = "cleaned"
  /\ UNCHANGED <<pages, filename, openError, fileVars, renderVars, fullText, cleanTxt, urlMap, urlNo, outVars>>

\* ------------------------------------------------------------------------
\* pdfToMarkdown, the assembly of the Markdown
\* ------------------------------------------------------------------------
Assemble ==
  /\ pc = "cleaned"
  /\ mdLines' = HeaderLines(filename) \o ParagraphLines(SplitParagraphs(cleaned))
  /\ finalContent' = JoinLines(mdLines')
  /\ pc' = "done"
  /\ UNCHANGED <<pages, filename, openError, fileVars, renderVars, cleanVars, error>>

\* ------------------------------------------------------------------------
\* pdfFileToMarkdownFile
\* ------------------------------------------------------------------------
\* fs.existsSync(absIn) is false: the function throws
FileNotFound ==
  /\ fpc = "start"
  /\ Resolve(inputPath) \notin DOMAIN files
  /\ error' = <<[message |-> NotFound(Resolve(inputPath))]>>
  /\ fpc' = "failed"
  /\ UNCHANGED <<pc, pages, filename, openError, renderVars, cleanVars, mdLines,
                 finalContent, inputPath, outputPath, absOut, files, dirs>>

\* the input exists: the output path is fixed, its directory made, the input
\* read and pdfToMarkdown called with the bytes and the base name
CallPdfToMarkdown ==
  /\ fpc = "start"
  /\ Resolve(inputPath) \in DOMAIN files
  /\ absOut' = AbsOut(Resolve(inputPath), outputPath)
  /\ dirs' = dirs \cup DirsTo(DirName(absOut'))
  /\ filename' = BaseName(Resolve(inputPath))
  /\ pc' = "open"
  /\ fpc' = "convert"
  /\ UNCHANGED <<pages, openError, renderVars, cleanVars, outVars, inputPath,
                 outputPath, files>>

\* pdfToMarkdown has resolved: fs.writeFileSync(absOut, markdownContent) and
\* return absOut
WriteOutput ==
  /\ fpc = "convert"
  /\ pc = "done"
  /\ files' = [p \in DOMAIN files \cup {absOut} |->
                 IF p = absOut THEN finalContent ELSE files[p]]
  /\ fpc' = "returned"
  /\ UNCHANGED <<pc, pages, filename, openError, renderVars, cleanVars, outVars,
                 inputPath, outputPath, absOut, dirs>>

\* pdfToMarkdown has rejected: the await throws its error
ConvertFails ==
  /\ fpc = "convert"
  /\ pc = "failed"
  /\ fpc' = "failed"
  /\ UNCHANGED <<pc, pages, filename, openError, renderVars, cleanVars, outVars,
                 inputPath, outputPath, absOut, files, dirs>>

NextFile == FileNotFound \/ CallPdfToMarkdown \/ WriteOutput \/ ConvertFails

NextRender ==
  \/ OpenDocument \/ OpenFails \/ TextResolves \/ TextRejects \/ AnnotationsSettle
  \/ ThenCallback \/ RenderFails \/ RenderItem \/ StartLinks \/ ProcessAnnotation
  \/ FinishPage

NextClean ==
  \/ CallCleanText \/ Protect \/ Hyphenation \/ Paragraphs \/ Newlines
  \/ Sentences \/ LowerUpper \/ Romanian \/ RestorePara \/ Collapse
  \/ Punctuation \/ RestoreOne \/ ReturnCleaned \/ Assemble

Next == NextRender \/ NextClean

\* pdfToMarkdown on a document
Spec == Init /\ [][Next]_vars

\* the normalizer and the assembly on a text
SpecClean == InitClean /\ [][NextClean]_vars

\* the normalizer and the assembly on prose
SpecProse == InitProse /\ [][NextClean]_vars

\* pdfFileToMarkdownFile on a path of the disk, pdfToMarkdown within it
NextCall == NextFile \/ Next

SpecFile == InitFile /\ [][NextCall]_vars

\* ------------------------------------------------------------------------
\* The properties
\* ------------------------------------------------------------------------
\* s holds a token <<<URL_n>>> or the token <<<__PARA__>>>
HasPlaceholder(s) ==
  \/ Contains(s, PARA)
  \/ \E i \in 1..Len(s) :
       /\ OccursAt(s, <<"<","<","<","U","R","L","_">>, i)
       /\ RunEnd(s, i + 7, DigitChars) >= i + 7
       /\ OccursAt(s, <<">",">",">">>, RunEnd(s, i + 7, DigitChars) + 1)

\* C1: no placeholder leakage.  What cleanText returns, and the Markdown
\* pdfToMarkdown returns, hold no token <<<URL_n>>> and no token
\* <<<__PARA__>>>.
C1_NoPlaceholderLeak ==
  /\ pc \in {"cleaned", "done"} => ~HasPlaceholder(cleaned)
  /\ pc = "done" => ~HasPlaceholder(finalContent)

\* C2: URL protection.  Every span that cleanText protected (an http or
\* https URL, an e-mail address) occurs in what cleanText returns exactly
\* as it occurred in the argument.
C2_UrlsByteIdentical ==
  pc \in {"cleaned", "done"} =>
    \A n \in 1..Len(urlMap) : Contains(fullText, urlMap[n]) /\ Contains(cleaned, urlMap[n])

\* the annotations of the document that are links with a URL
LinkAnnotations ==
  UNION { {pages[p].annotations[k] : k \in 1..Len(pages[p].annotations)} :
          p \in 1..Len(pages) }

\* the target of a link as the matcher writes it: ](url)
Target(url) == <<"]", "(">> \o url \o <<")">>

\* C3: the targets of the links the matcher wrote are protected.  For every
\* link annotation whose target ](url) is in the text handed to cleanText,
\* the same target is in the final Markdown.
C3_LinkTargetsProtected ==
  pc = "done" =>
    \A an \in LinkAnnotations :
      (IsLink(an) /\ Contains(fullText, Target(an.url)))
        => Contains(finalContent, Target(an.url))

\* s with its first occurrence of pattern replaced by replacement, character
\* for character
LiteralReplace(s, pattern, replacement) ==
  LET i == IndexOf(s, pattern)
  IN  IF i = 0 THEN s
      ELSE SubSeq(s, 1, i - 1) \o replacement \o From(s, i + Len(pattern))

\* the annotation the loop of renderPage is at
CurrentAnnotation == annotations[annNo]

\* its visible link text
CurrentLinkText == LinkText(pages[pageNo].items, CurrentAnnotation.rect)

\* the matcher is about to process a link whose visible text is in the
\* reconstructed text of the page, with no substitution made before
FusionCase ==
  /\ pc = "links"
  /\ annNo <= Len(annotations)
  /\ IsLink(CurrentAnnotation)
  /\ CurrentLinkText # <<>>
  /\ finalText = text
  /\ Contains(text, CurrentLinkText)

\* C4: hyperlink fusion.  When the visible link text of an annotation is not
\* empty and occurs in the reconstructed text of the page, the matcher
\* replaces exactly the first occurrence of that text by [text](url) and
\* leaves the rest of the page as it was, so that [text](url) occurs once.
C4_FirstOccurrenceLinked ==
  [][FusionCase =>
       /\ finalText' = LiteralReplace(text, CurrentLinkText,
                                      MarkdownLink(CurrentLinkText, CurrentAnnotation.url))
       /\ CountOcc(finalText', MarkdownLink(CurrentLinkText, CurrentAnnotation.url)) = 1]_vars

\* the annotations of page p that are links with a URL and overlap no run
Orphans(p) ==
  {k \in 1..Len(pages[p].annotations) :
     /\ IsLink(pages[p].annotations[k])
     /\ OverlappingTexts(pages[p].items, pages[p].annotations[k].rect) = <<>>}

\* C5: orphan link fallback.  For every link annotation with a URL that
\* overlaps no glyph run of its page, the line [Link](url) is in the final
\* Markdown.
C5_OrphanLinkKept ==
  pc = "done" =>
    \A p \in 1..Len(pages) : \A k \in Orphans(p) :
      Contains(finalContent, MarkdownLink(<<"L","i","n","k">>, pages[p].annotations[k].url))

\* the matcher is through with the annotations of the page
PageMatched == pc = "links" /\ annNo > Len(annotations)

\* url holds no "$": String.prototype.replace inserts it as it is
Verbatim(url) == \A i \in 1..Len(url) : url[i] # "$"

\* C6: no link is dropped silently.  When the matcher is through with a
\* page, the text of the page holds ](url) for every link annotation of the
\* page that has a URL.  (Stated for the URLs without "$"; those with "$" are
\* rewritten at insertion, which is the case of C4.)
C6_NoLinkDropped ==
  PageMatched =>
    \A k \in 1..Len(pages[pageNo].annotations) :
      (IsLink(pages[pageNo].annotations[k]) /\ Verbatim(pages[pageNo].annotations[k].url))
        => Contains(finalText, Target(pages[pageNo].annotations[k].url))

\* s holds a letter or a digit
HasInk(s) == \E i \in 1..Len(s) : s[i] \in (LowerRo \cup UpperRo \cup DigitChars)

\* the positions of the line breaks of the argument of cleanText
BreakPositions == {i \in 1..Len(fullText) : fullText[i] = "\n"}

\* the argument of cleanText is A, then two or more line breaks, then B, with
\* no other line break, and both A and B hold a letter or a digit
TwoPieces ==
  /\ Cardinality(BreakPositions) >= 2
  /\ Max(BreakPositions) - Min(BreakPositions) + 1 = Cardinality(BreakPositions)
  /\ HasInk(SubSeq(fullText, 1, Min(BreakPositions) - 1))
  /\ HasInk(From(fullText, Max(BreakPositions) + 1))

\* the paragraphs of the body of the assembled Markdown
BodyParagraphs ==
  LET body == From(mdLines, 5)
  IN  [i \in 1..(Len(body) \div 2) |-> body[2 * i - 1]]

\* C7: paragraph preservation.  Two pieces of text that two or more line
\* breaks separate in the argument of cleanText are two paragraphs of the
\* assembled Markdown, none of them holding a line of both.
C7_ParagraphsKept ==
  (pc = "done" /\ TwoPieces) => Len(BodyParagraphs) >= 2

\* s without the hyphens that a line break follows at once, and without
\* that line break
RECURSIVE WithoutHyphenBreaks(_)
WithoutHyphenBreaks(s) ==
  LET i == IndexOf(s, <<"-", "\n">>)
  IN  IF i = 0 THEN s
      ELSE SubSeq(s, 1, i - 1) \o WithoutHyphenBreaks(From(s, i + 2))

\* C8: hyphenation repair.  Step 2 removes every hyphen that a line break
\* follows at once, together with that one line break, and nothing else.
C8_OnlyHyphenBreaksRemoved ==
  [][pc = "hyphen" => cleanTxt' = WithoutHyphenBreaks(cleanTxt)]_vars

\* the lines of the Markdown that are page heading markers, in order
RECURSIVE Markers(_)
Markers(lines) ==
  IF lines = <<>> THEN <<>>
  ELSE (IF IsPageHeader(Head(lines)) THEN <<Head(lines)>> ELSE <<>>)
       \o Markers(Tail(lines))

\* the pages whose glyph runs or whose annotations could not be extracted
FailedPages == {p \in 1..Len(pages) : pages[p].textFails \/ pages[p].annotationsFail}

\* C9: multi-page markers.  For a document of N > 1 pages the final
\* Markdown holds the N markers ## Page 1 .. ## Page N, in this order.
\* (Stated for the documents all of whose pages were extracted; a page that
\* was not is the case of C13.)
C9_MarkersInOrder ==
  (pc = "done" /\ Len(pages) > 1 /\ FailedPages = {}) =>
    Markers(mdLines) = [k \in 1..Len(pages) |-> PageHeading(k)]

\* C10: a marker only for the documents of more than one page.  The final
\* Markdown of a single page holds no page heading marker; that of several
\* pages holds the marker of each page.  (Stated for the documents all of
\* whose pages were extracted.)
C10_MarkerIffMultiPage ==
  (pc = "done" /\ FailedPages = {}) =>
    IF Len(pages) = 1
    THEN ~Contains(finalContent, <<"#","#"," ","P","a","g","e"," ">>)
    ELSE \A k \in 1..Len(pages) : Contains(finalContent, PageHeading(k))

\* C11: partial idempotence.  Applying cleanText to what cleanText returned
\* changes nothing: cleanText(cleanText(t)) = cleanText(t) for every text t.
C11_Idempotent ==
  pc \in {"cleaned", "done"} => CleanText(cleaned) = cleaned

\* C12: extraction failure is fatal.  When the extraction collaborator raises
\* while the document is parsed, pdfToMarkdown fails with an error whose
\* message holds the message of the cause, and no Markdown is built or
\* returned.
C12_ExtractionFailureFatal ==
  openError # <<>> =>
    /\ pc \in {"open", "failed"}
    /\ mdLines = <<>>
    /\ finalContent = <<>>
    /\ pc = "failed" => (error # <<>> /\ Contains(error[1].message, openError))

\* pdfToMarkdown has thrown for a document that cannot be parsed
C12_Witness == pc = "failed" /\ openError # <<>> /\ error # <<>>

\* C13: a failure on a single page aborts the conversion.  When the
\* extraction of the glyph runs or of the annotations of any page fails, no
\* Markdown is produced: pdfToMarkdown returns Markdown only for a document
\* all of whose pages were extracted in full.
C13_PageFailureAborts ==
  pc = "done" => FailedPages = {}

\* C14: a failure is reported as one error that identifies the stage and
\* the page where it occurred.
C14_ErrorNamesStageAndPage ==
  pc = "failed" => (error # <<>> /\ {"stage", "page"} \subseteq DOMAIN error[1])

\* the normalizer or the assembler of pdfToMarkdown has started
Assembling == pc \notin {"open", "await", "items", "links", "failed"}

C16_HeadingIsPageIndex ==
  \A p \in 1..Len(pageTexts) :
    pageTexts[p] # <<>> =>
      OccursAt(pageTexts[p], <<"\n","\n">> \o PageHeading(p) \o <<"\n","\n">>, 1)

\* the paragraphs the rendering of a page gives when it is normalized alone
OwnParagraphs(pageText) == ParagraphLines(SplitParagraphs(CleanText(pageText)))

\* the paragraphs of the pages, each normalized alone, in page order
RECURSIVE PagewiseBody(_)
PagewiseBody(texts) ==
  IF texts = <<>> THEN <<>>
  ELSE OwnParagraphs(Head(texts)) \o PagewiseBody(Tail(texts))

\* C17: page independence.  What the Markdown holds for a page depends on
\* the glyph runs and the annotations of that page only: the body of the
\* Markdown is, page after page, what each page gives when it is normalized
\* alone, whatever the other pages hold.  (Stated for the documents whose
\* URLs hold no "$", which are restored as they were.)
C17_PagesIndependent ==
  (pc = "done" /\ \A an \in LinkAnnotations : Verbatim(an.url)) =>
    From(mdLines, 5) = PagewiseBody(pageTexts)

\* the token-shaped texts a document may hold
TokenTexts == {Placeholder(0), PARA}

\* C18: the placeholder tokens do not collide with the text of the
\* document.  A substring of the argument of cleanText that has the form of
\* a token is text like any other: it is in what cleanText returns as often
\* as it was in the argument, neither replaced by a protected URL nor turned
\* into a paragraph break, and it stays where it was: at the head of the
\* text if the argument began with it.  (Stated for the texts without "$".)
C18_TokensAreText ==
  (pc \in {"cleaned", "done"} /\ Verbatim(fullText)) =>
    \A tok \in TokenTexts :
      /\ CountOcc(cleaned, tok) = CountOcc(fullText, tok)
      /\ OccursAt(fullText, tok, 1) => OccursAt(cleaned, tok, 1)

\* a file name without its extension: what is before its last dot
WithoutExtension(name) ==
  LET dots == {i \in 2..Len(name) : name[i] = "."}
  IN  IF dots = {} THEN name ELSE SubSeq(name, 1, Max(dots) - 1)

\* the paragraphs of a list that are not empty once trimmed, each followed by
\* one empty line
RECURSIVE WithBlankLines(_)
WithBlankLines(paragraphs) ==
  IF paragraphs = <<>> THEN <<>>
  ELSE (IF Trim(Head(paragraphs)) = <<>> THEN <<>>
        ELSE <<Trim(Head(paragraphs)), <<>>>>)
       \o WithBlankLines(Tail(paragraphs))

\* C19: the shape of the assembled document.  The Markdown is the title
\* line "# " and the file name without its extension, an empty line, the
\* caption "*Converted from PDF: <file name>*", an empty line, and then every
\* non-empty paragraph of the normalized text, in order, each followed by one
\* empty line.
C19_DocumentShape ==
  pc = "done" =>
    /\ mdLines = << <<"#", " ">> \o WithoutExtension(filename),
                    <<>>,
                    <<"*","C","o","n","v","e","r","t","e","d"," ","f","r","o","m"," ",
                      "P","D","F",":"," ">> \o filename \o <<"*">>,
                    <<>> >>
                  \o WithBlankLines(SplitParagraphs(cleaned))
    /\ finalContent = JoinLines(mdLines)

\* the texts of glyph runs one after the other, with one line break between
\* two consecutive runs of different baselines and nothing between two of
\* the same baseline
RECURSIVE Layout(_)
Layout(runs) ==
  IF runs = <<>> THEN <<>>
  ELSE LET n == Len(runs)
       IN  Layout(SubSeq(runs, 1, n - 1))
           \o (IF n > 1 /\ runs[n].y # runs[n - 1].y THEN <<"\n">> ELSE <<>>)
           \o runs[n].str

\* C20: layout reconstruction.  The raw text of a page is the concatenation
\* of the texts of its glyph runs in extraction order, with exactly one line
\* break between two consecutive runs whose baselines differ and nothing
\* between two runs of equal baseline or before the first run.
C20_LayoutReconstruction ==
  pc \in {"items", "links"} =>
    text = Layout(SubSeq(pages[pageNo].items, 1, itemNo - 1))

\* the raw text of a page of two runs on two baselines is built
C20_Witness ==
  /\ pc = "links"
  /\ Len(pages[pageNo].items) = 2
  /\ pages[pageNo].items[1].y # pages[pageNo].items[2].y
  /\ text = pages[pageNo].items[1].str \o <<"\n">> \o pages[pageNo].items[2].str

\* the bounding box of a glyph run, as the integer points of its two sides
BoxX(item) == item.x .. (item.x + item.width)
BoxY(item) == item.y .. (item.y + item.height)

\* the sides of the rectangle <<x1, y1, x2, y2>> grown by 10 units each way
GrownX(rect) == (rect[1] - 10) .. (rect[3] + 10)
GrownY(rect) == (rect[2] - 10) .. (rect[4] + 10)

\* the box of the run and the grown rectangle have a point in common
Intersects(item, rect) ==
  /\ BoxX(item) \cap GrownX(rect) # {}
  /\ BoxY(item) \cap GrownY(rect) # {}

\* the runs whose box meets the grown rectangle, in extraction order
Collected(items, rect) == SelectSeq(items, LAMBDA item : Intersects(item, rect))

\* C21: overlap rule.  While the links of a page are matched, the glyph runs
\* collected for a link annotation are exactly the runs whose bounding box
\* [x, x+width] x [y, y+height] meets the annotation rectangle grown by 10
\* units on all four sides, a run touching the grown boundary included and a
\* run further away than 10 units on a side excluded.
C21_OverlapRule ==
  pc = "links" =>
    \A k \in 1..Len(annotations) :
      IsLink(annotations[k]) =>
        OverlappingTexts(pages[pageNo].items, annotations[k].rect)
          = Collected(pages[pageNo].items, annotations[k].rect)

\* a link has been matched on a page where one run touches the grown
\* rectangle from below and is linked, and another run is too far to the right
C21_Witness ==
  /\ pc = "links"
  /\ annNo > 1
  /\ IsLink(annotations[1])
  /\ \E i, j \in 1..Len(pages[pageNo].items) :
       LET items == pages[pageNo].items
           rect  == annotations[1].rect
       IN  /\ items[i].y + items[i].height = rect[2] - 10
           /\ Overlaps(items[i], rect)
           /\ items[j].x > rect[3] + 10
           /\ ~Overlaps(items[j], rect)
           /\ Contains(finalText, <<"[">> \o Trim(items[i].str) \o <<"]">>)

\* the spans occur in s one after the other, each after the end of the one
\* before
RECURSIVE InOrder(_, _)
InOrder(s, spans) ==
  IF spans = <<>> THEN TRUE
  ELSE /\ Contains(s, Head(spans))
       /\ InOrder(From(s, IndexOf(s, Head(spans)) + Len(Head(spans))), Tail(spans))

\* C22: placeholder uniqueness.  Within one call of cleanText every
\* protected span has a token of its own, which after step 1 stands in the
\* text exactly once, and each token is restored to the span it replaced:
\* the protected spans occur in what cleanText returns in the order in which
\* they were protected.
C22_PlaceholderUniqueness ==
  /\ pc = "hyphen" =>
       \A n \in 1..Len(urlMap) : CountOcc(cleanTxt, Placeholder(n - 1)) = 1
  /\ pc \in {"cleaned", "done"} => InOrder(cleaned, urlMap)

\* s holds no two blanks in a row, no three line breaks in a row, and
\* neither starts nor ends with white space
Collapsed(s) ==
  /\ \A i \in 1..(Len(s) - 1) : ~(s[i] \in {" ", "\t"} /\ s[i + 1] \in {" ", "\t"})
  /\ \A i \in 1..(Len(s) - 2) : ~(s[i] = "\n" /\ s[i + 1] = "\n" /\ s[i + 2] = "\n")
  /\ s # <<>> => (s[1] \notin {" ", "\t", "\n"} /\ s[Len(s)] \notin {" ", "\t", "\n"})

\* C23: whitespace collapse.  For every argument, what cleanText returns
\* holds no run of two or more spaces or tabs, no run of three or more line
\* breaks, and no white space at its start or end.
C23_WhitespaceCollapsed ==
  pc \in {"cleaned", "done"} => Collapsed(cleaned)

\* in s none of , ! ? ; : follows a space, and between one of them and the
\* next letter, when only white space lies between the two, there is
\* exactly one space
Spaced(s) ==
  /\ \A i \in 2..Len(s) : s[i] \in {",", "!", "?", ";", ":"} => s[i - 1] # " "
  /\ \A i \in 1..Len(s) : \A j \in (i + 1)..Len(s) :
       ( /\ s[i] \in {",", "!", "?", ";", ":"}
         /\ s[j] \in LowerRo \cup UpperRo
         /\ \A k \in (i + 1)..(j - 1) : s[k] \in {" ", "\t", "\n"} )
       => (j = i + 2 /\ s[i + 1] = " ")

\* the digit sequences of s joined by one of , ! ? ; : or by a dot
DigitJoins(s) ==
  { SubSeq(s, i, i + 2) : i \in { k \in 1..(Len(s) - 2) :
      /\ s[k] \in DigitChars
      /\ s[k + 1] \in {",", "!", "?", ";", ":", "."}
      /\ s[k + 2] \in DigitChars } }

Glued(s, first, second) ==
  {i \in 1..(Len(s) - 1) : s[i] \in first /\ s[i + 1] \in second}

\* the positions of s after "sa" (with a-breve) and before "i" or i-circ
AfterSa(s) ==
  {i \in 2..(Len(s) - 1) :
     s[i - 1] = "s" /\ s[i] = "a-breve" /\ s[i + 1] \in {"i-circ", "i"}}

\* s with one space put after each of the positions of Q
RECURSIVE InsertAt(_, _)
InsertAt(s, Q) ==
  IF Q = {} THEN s
  ELSE LET i == CHOOSE k \in Q : \A m \in Q : m <= k
       IN  InsertAt(SubSeq(s, 1, i), Q \ {i}) \o <<" ">> \o From(s, i + 1)

\* no lowercase letter and no . ! ? is right before an uppercase letter
NoGluedPair(s) ==
  /\ Glued(s, LowerRo, UpperRo) = {}
  /\ Glued(s, {".", "!", "?"}, UpperRo) = {}

\* C25: heuristic re-spacing.  Outside the protected spans, which the tokens
\* stand for until step 11, the text cleanText returns has no lowercase
\* letter and no . ! ? right before an uppercase letter; steps 5 and 6 put
\* exactly one space at every such place and nowhere else, and step 7 puts
\* spaces only between "sa" (with a-breve) and a following "i" or i-circ.
C25_HeuristicRespacing ==
  /\ []((pc = "restoreurl" /\ urlNo = 0) => NoGluedPair(cleanTxt))
  /\ []((pc \in {"cleaned", "done"} /\ urlMap = <<>>) => NoGluedPair(cleaned))
  /\ [][ /\ pc = "sentence" =>
            cleanTxt' = InsertAt(cleanTxt, Glued(cleanTxt, {".", "!", "?"}, UpperRo))
         /\ pc = "lowerupper" =>
            cleanTxt' = InsertAt(cleanTxt, Glued(cleanTxt, LowerRo, UpperRo))
         /\ pc = "romanian" =>
            \E Q \in SUBSET AfterSa(cleanTxt) : cleanTxt' = InsertAt(cleanTxt, Q) ]_vars

\* a text with a lowercase letter and with a dot right before an uppercase
\* letter has been normalized: both pairs are apart
C25_Witness ==
  /\ pc = "cleaned"
  /\ Glued(fullText, LowerRo, UpperRo) # {}
  /\ Glued(fullText, {"."}, UpperRo) # {}
  /\ NoGluedPair(cleaned)
  /\ Contains(cleaned, <<"i", " ", "B">>)
  /\ Contains(cleaned, <<".", " ", "B">>)

\* no "[" of s stands inside a link: between two "[" there is a "]", and
\* between a "(" and the next ")" there is no "["
NoLinkInsideLink(s) ==
  /\ \A i \in 1..Len(s) : \A j \in (i + 1)..Len(s) :
       (s[i] = "[" /\ s[j] = "[") => \E k \in (i + 1)..(j - 1) : s[k] = "]"
  /\ \A i \in 1..Len(s) : \A j \in (i + 1)..Len(s) :
       (s[i] = "(" /\ s[j] = "[") => \E k \in (i + 1)..(j - 1) : s[k] = ")"

\* C26: links stay well-formed over a sequence of annotations.  While the
\* annotations of a page are processed in order, no substitution lands in
\* the link text or in the URL of a link inserted before: the text of the
\* page holds no link inside a link, also when two annotations have the same
\* visible text.  Stated for URLs without "$".
C26_LinksWellFormed ==
  (pc = "links" /\ \A k \in 1..Len(annotations) : Verbatim(annotations[k].url))
    => NoLinkInsideLink(finalText)

\* C27: annotations that are not links leave the page unchanged.  While the
\* annotations of a page are processed, as long as every annotation
\* processed so far has a subtype other than Link or has no URL, the text of
\* the page is its reconstructed text: nothing was substituted and no line
\* was appended.
C27_NonLinksChangeNothing ==
  ( /\ pc = "links"
    /\ \A k \in 1..(annNo - 1) :
         annotations[k].subtype # "Link" \/ annotations[k].url = <<>> )
  => finalText = text

\* a page with glyph runs whose two annotations, a widget over a run and a
\* link without URL over a run, have been processed
C27_Witness ==
  /\ pc = "links"
  /\ annNo = 3
  /\ annotations[1].subtype = "Widget"
  /\ annotations[2].subtype = "Link"
  /\ annotations[2].url = <<>>
  /\ LinkText(pages[pageNo].items, annotations[1].rect) # <<>>
  /\ finalText = text

\* the number of paragraphs of s that are not empty
NonEmptyParagraphs(s) ==
  LET paragraphs == SplitParagraphs(s)
  IN  Cardinality({i \in 1..Len(paragraphs) : Trim(paragraphs[i]) # <<>>})

\* C28: no document content is lost in assembly.  Of the non-empty
\* paragraphs of the normalized text the assembler drops at most the page
\* heading markers that renderPage inserted, one for each page rendered:
\* every other one, a paragraph of the document that reads like a page
\* heading included, is a paragraph of the Markdown.
C28_NoContentLost ==
  pc = "done" => Len(BodyParagraphs) >= NonEmptyParagraphs(cleaned) - pageCounter

\* C29: pdfFileToMarkdownFile never overwrites its input.  When the call
\* has returned and outputPath was omitted, the path the Markdown was
\* written to is not the path of the input, whatever the name of the input
\* ends in, and the input file holds what it held before the call.
C29_InputNotOverwritten ==
  (fpc = "returned" /\ outputPath = <<>>) =>
    /\ absOut # Resolve(inputPath)
    /\ files[Resolve(inputPath)] = PdfBytes

\* C30: pdfFileToMarkdownFile leaves the filesystem unchanged on failure.
\* When the call has failed, because the input does not exist or because the
\* conversion threw, there is an error, and the files and the directories
\* of the disk are those from before the call.
C30_FailureLeavesDiskUnchanged ==
  fpc = "failed" =>
    /\ error # <<>>
    /\ files = InitialFiles
    /\ dirs = InitialDirs

====
